---- MODULE Spec2Model ----
(***************************************************************************)
(* Model of scripts/reflection.py: the two judgment gates, their           *)
(* reflectors, the presence check, the forced re-extraction and the        *)
(* hallucination check.  Every function renders one prompt, issues one     *)
(* blocking llm.generate call and parses the completion text.              *)
(*                                                                         *)
(* Texts are TLA+ strings; Python's str operations (in, split, strip,      *)
(* slicing, format) are modelled by operators that compute what Python     *)
(* computes.  None is <<>> and a present value v is <<v>>.                 *)
(***************************************************************************)
EXTENDS Integers, Sequences, FiniteSets, TLC

(***************************************************************************)
(* The field names of the records of the model: results and verdicts,      *)
(* chat messages and generation requests, and the functions' arguments.    *)
(***************************************************************************)
Fields ==
    DOMAIN [status |-> 0, value |-> 0, error |-> 0, passed |-> 0, budget |-> 0,
            role |-> 0, content |-> 0, rendered_from |-> 0, tokenize |-> 0,
            add_generation_prompt |-> 0, max_tokens |-> 0, temperature |-> 0,
            question |-> 0, history |-> 0, query |-> 0, failed_query |-> 0,
            search_query |-> 0, results |-> 0, title |-> 0, url |-> 0,
            snippet |-> 0, snippets |-> 0, document_text |-> 0,
            extracted_info |-> 0, info |-> 0, final_answer |-> 0, reason |-> 0,
            failure_reason |-> 0]

(***************************************************************************)
(* Bounds of the model.                                                    *)
(***************************************************************************)
\* a completion is the concatenation of at most MaxFrags fragments
MaxFrags == 2
\* the caller's remaining-budget counter starts in 0..MaxBudget
MaxBudget == 2
\* the longest result list handed to the snippet gate
MaxResults == 6

(***************************************************************************)
(* Program constants.                                                      *)
(***************************************************************************)
SnippetCount == 5
SnippetChars == 150
HistoryChars == 500
PresenceDocChars == 30000
RefineDocChars == 35000
JudgeInfoChars == 2000
ReflectInfoChars == 1000
AnswerChars == 2000

(***************************************************************************)
(* Python values.                                                          *)
(***************************************************************************)
None == <<>>
Some(v) == <<v>>

Min(S) == CHOOSE x \in S : \A y \in S : x <= y

(***************************************************************************)
(* Python str operations.                                                  *)
(***************************************************************************)
\* characters str.strip() removes
Whitespace == {" ", "\t", "\n", "\r", "\f"}

\* s[:n]
Prefix(s, n) == SubSeq(s, 1, IF n < Len(s) THEN n ELSE Len(s))

\* s[-n:] for n > 0
Suffix(s, n) == SubSeq(s, IF Len(s) > n THEN Len(s) - n + 1 ELSE 1, Len(s))

\* s.find(sub) + 1: the 1-based start of the first occurrence, 0 when none
Find(s, sub) ==
    LET hits == {i \in 1..(Len(s) - Len(sub) + 1) :
                    SubSeq(s, i, i + Len(sub) - 1) = sub}
    IN  IF hits = {} THEN 0 ELSE Min(hits)

\* sub in s
Contains(s, sub) == Find(s, sub) # 0

\* s.split(sep), sep non-empty: the pieces between the non-overlapping
\* occurrences of sep, found left to right
RECURSIVE Split(_, _)
Split(s, sep) ==
    LET i == Find(s, sep)
    IN  IF i = 0
        THEN <<s>>
        ELSE <<SubSeq(s, 1, i - 1)>> \o Split(SubSeq(s, i + Len(sep), Len(s)), sep)

RECURSIVE LStrip(_)
LStrip(s) ==
    IF Len(s) > 0 /\ SubSeq(s, 1, 1) \in Whitespace
    THEN LStrip(SubSeq(s, 2, Len(s)))
    ELSE s

RECURSIVE RStrip(_)
RStrip(s) ==
    IF Len(s) > 0 /\ SubSeq(s, Len(s), Len(s)) \in Whitespace
    THEN RStrip(SubSeq(s, 1, Len(s) - 1))
    ELSE s

\* s.strip()
Strip(s) == RStrip(LStrip(s))

\* sep.join(parts)
RECURSIVE Join(_, _)
Join(sep, parts) ==
    IF Len(parts) = 0 THEN ""
    ELSE IF Len(parts) = 1 THEN parts[1]
    ELSE parts[1] \o sep \o Join(sep, Tail(parts))

\* c repeated n times
RECURSIVE Rep(_, _)
Rep(c, n) ==
    IF n = 0 THEN ""
    ELSE LET half == Rep(c, n \div 2)
         IN  half \o half \o (IF n % 2 = 1 THEN c ELSE "")


(***************************************************************************)
(* Values a function call ends with.                                       *)
(***************************************************************************)
NoResult == [status |-> "none"]
Return(v) == [status |-> "returned", value |-> v]
Raised(e) == [status |-> "raised", error |-> e]

\* parts[1] in Python (the second piece): IndexError when there is none
Index1(parts) == IF Len(parts) >= 2 THEN Return(parts[2]) ELSE Raised("IndexError")

\* try: v = attempt / except: v = fallback
TryExcept(attempt, fallback) ==
    IF attempt.status = "raised" THEN fallback ELSE attempt.value

\* d.get(key, default)
Get(d, key, default) == IF key \in DOMAIN d THEN d[key] ELSE default

\* the first n items of a list: xs[:n]
Take(xs, n) == SubSeq(xs, 1, IF n < Len(xs) THEN n ELSE Len(xs))

(***************************************************************************)
(* The prompt templates: literal text and {field} placeholders.            *)
(***************************************************************************)
\* reflection.py lines 7-19
JUDGE_SNIPPET_PROMPT ==
    << <<"lit", "\nYou are a relevance evaluator.\nUser Question: ">>,
       <<"field", "question">>,
       <<"lit", "\nSearch Query Used: ">>,
       <<"field", "query">>,
       <<"lit", "\nSearch Results (Snippets):\n">>,
       <<"field", "snippets">>,
       <<"lit", "\n\nTask: Do these snippets appear RELEVANT and helpful for the search query?\n- If YES, output exactly: \"JUDGEMENT: YES\"\n- If NO, output exactly: \"JUDGEMENT: NO | Reason: [Short explanation of why it failed]\"\n\nExample of NO: \"JUDGEMENT: NO | Reason: The results are about fruit apple, but the user asked about Apple Inc. tech.\"\n">> >>

\* reflection.py lines 22-32
REFLECTION_QUERY_PROMPT ==
    << <<"lit", "\nThe previous search query failed.\nUser Question: ">>,
       <<"field", "question">>,
       <<"lit", "\nFailed Query: ">>,
       <<"field", "query">>,
       <<"lit", "\nJudge's Complaint: ">>,
       <<"field", "reason">>,
       <<"lit", "\n\nTask: Write a NEW, better search query that specifically addresses the Judge's complaint.\nOutput Format:\nReasoning: [How I will fix the error]\nNew_Query: [The new query string]\n">> >>

\* reflection.py lines 36-45
PRESENCE_CHECK_PROMPT ==
    << <<"lit", "\nYou are a Fact Validator.\nUser Query: \"">>,
       <<"field", "search_query">>,
       <<"lit", "\"\nSearch Results:\n\"">>,
       <<"field", "document_text">>,
       <<"lit", "\"\n\nTask: Determine if the answer to the query is present ANYWHERE in these search results.\n- If the text contains specific facts, numbers, or names that answer the query, output \"STATUS: PRESENT\".\n- If the text is irrelevant or does not contain the answer, output \"STATUS: ABSENT\".\n">> >>

\* reflection.py lines 47-58
REFINE_EXTRACTION_PROMPT ==
    << <<"lit", "\nYou previously missed the information in these documents.\nUser Query: \"">>,
       <<"field", "search_query">>,
       <<"lit", "\"\nSearch Results:\n\"">>,
       <<"field", "document_text">>,
       <<"lit", "\"\n\nValidator Note: The answer IS present in these results.\n\nTask: Read the results again carefully and extract the EXACT answer to the query.\n- Start your response with \"**Final Information**\" followed by the extracted facts.\n- If you still cannot find it (despite the note), output \"No helpful information found.\"\n">> >>

\* reflection.py lines 60-77
JUDGE_CONTENT_PROMPT ==
    << <<"lit", "\nYou are evaluating if a search result was successful.\n\nSearch Query Used: ">>,
       <<"field", "search_query">>,
       <<"lit", "\nReasoning Context: ...">>,
       <<"field", "history">>,
       <<"lit", "...\nExtracted Information: ">>,
       <<"field", "info">>,
       <<"lit", "\n\nTask: Did this search successfully find the information requested in the **Search Query**?\n(Do NOT judge based on whether it fully answers the ultimate user question, only if it satisfied the immediate search intent.)\n\n- If the search query asked for \"CEO name\" and the text contains \"Tim Cook\", say YES.\n- If the text is irrelevant to the query, say NO.\n\nOutput format:\n\"JUDGEMENT: YES\" \nor \n\"JUDGEMENT: NO | Reason: [Explain exactly what is missing]\"\n">> >>

\* reflection.py lines 79-93
REFLECTION_CONTENT_PROMPT ==
    << <<"lit", "\nThe extracted information was judged as INSUFFICIENT to answer the search query.\nUser Question: ">>,
       <<"field", "question">>,
       <<"lit", "\nSearch Query: ">>,
       <<"field", "search_query">>,
       <<"lit", "\nJudge's Verdict: ">>,
       <<"field", "reason">>,
       <<"lit", "\nCurrent Info: ">>,
       <<"field", "info">>,
       <<"lit", "\n\nTask:\n1. Analyze what specific information is still missing.\n2. Propose a high-level SEARCH DIRECTION or STRATEGY to find this missing information.\n\nOutput Format:\nAnalysis: [What is missing]\nSearch_Direction: [Strategic advice for the next step]\n">> >>

\* reflection.py lines 95-105
HALLUCINATION_CHECK_PROMPT ==
    << <<"lit", "\nYou are a Fact Checker.\nUser Question: ">>,
       <<"field", "question">>,
       <<"lit", "\nProposed Final Answer: ">>,
       <<"field", "final_answer">>,
       <<"lit", "\n\nTask: Does this answer contain specific factual claims (dates, numbers, names) that appear UNVERIFIED or possibly hallucinated given the context?\n- If the answer is safe or generic, say NO.\n- If the answer makes specific claims without clear evidence in reasoning history, say YES.\n\nOutput exactly: \"JUDGEMENT: YES\" or \"JUDGEMENT: NO\"\n">> >>

\* template.format(**kwargs): every placeholder of the template is replaced
\* by its keyword argument; a keyword the template does not name is ignored
RECURSIVE Format(_, _)
Format(template, kwargs) ==
    IF Len(template) = 0 THEN ""
    ELSE LET seg == Head(template)
         IN  (IF seg[1] = "lit" THEN seg[2] ELSE kwargs[seg[2]])
                 \o Format(Tail(template), kwargs)

\* what format writes for an optional text: str(None) is "None"
Str(v) == IF v = None THEN "None" ELSE v[1]

\* history[-500:] if history else ""   (history is None or Some(text))
HistoryShort(history) ==
    IF history = None \/ history[1] = "" THEN "" ELSE Suffix(history[1], HistoryChars)

\* "\n".join([f"- {r.get('snippet', '')[:150]}" for r in results[:5]])
Snippets(results) ==
    LET first == Take(results, SnippetCount)
    IN  Join("\n", [i \in 1..Len(first) |->
                       "- " \o Prefix(Get(first[i], "snippet", ""), SnippetChars)])

(***************************************************************************)
(* prompt_content of each function, from its arguments.                    *)
(***************************************************************************)
JudgeSnippetPrompt(a) ==
    Format(JUDGE_SNIPPET_PROMPT,
           [question |-> a.question, history |-> HistoryShort(a.history),
            query |-> a.query, snippets |-> Snippets(a.results)])

ReflectionQueryPrompt(a) ==
    Format(REFLECTION_QUERY_PROMPT,
           [question |-> a.question, history |-> HistoryShort(a.history),
            query |-> a.failed_query, reason |-> Str(a.failure_reason)])

PresenceCheckPrompt(a) ==
    Format(PRESENCE_CHECK_PROMPT,
           [search_query |-> a.search_query,
            document_text |-> Prefix(a.document_text, PresenceDocChars)])

RefineExtractionPrompt(a) ==
    Format(REFINE_EXTRACTION_PROMPT,
           [search_query |-> a.search_query,
            document_text |-> Prefix(a.document_text, RefineDocChars)])

JudgeContentPrompt(a) ==
    Format(JUDGE_CONTENT_PROMPT,
           [history |-> HistoryShort(a.history), search_query |-> a.search_query,
            info |-> Prefix(a.extracted_info, JudgeInfoChars)])

ReflectionContentPrompt(a) ==
    Format(REFLECTION_CONTENT_PROMPT,
           [question |-> a.question, search_query |-> a.search_query,
            info |-> Prefix(a.extracted_info, ReflectInfoChars),
            reason |-> Str(a.failure_reason)])

HallucinationCheckPrompt(a) ==
    Format(HALLUCINATION_CHECK_PROMPT,
           [question |-> a.question,
            final_answer |-> Prefix(a.final_answer, AnswerChars)])

(***************************************************************************)
(* What each function makes of the completion text.                        *)
(***************************************************************************)
Verdict(passed, reason) == [passed |-> passed, reason |-> reason]

\* the gates' try body without the strip()
ReasonAttempt_NoStrip(response) == Index1(Split(response, "| Reason:"))

\* the body of the gates' try: response.split("| Reason:")[1].strip()
ReasonAttempt(response) ==
    LET piece == Index1(Split(response, "| Reason:"))
    IN  IF piece.status = "raised" THEN piece ELSE Return(Strip(piece.value))

\* the body of the reflector's try:
\* response.split("New_Query:")[1].strip().split('\n')[0]
NewQueryAttempt(response) ==
    LET piece == Index1(Split(response, "New_Query:"))
    IN  IF piece.status = "raised" THEN piece
        ELSE Return(Split(Strip(piece.value), "\n")[1])

\* run_judge_snippet whose except leaves the reason unset
JudgeSnippetVerdict_NoFallback(response) ==
    IF Contains(response, "JUDGEMENT: YES")
    THEN Return(Verdict(TRUE, None))
    ELSE IF Contains(response, "JUDGEMENT: NO")
    THEN LET attempt == ReasonAttempt(response)
         IN  Return(Verdict(FALSE, IF attempt.status = "raised" THEN None
                                   ELSE Some(attempt.value)))
    ELSE Return(Verdict(TRUE, None))

\* run_judge_snippet that looks for the NO marker first
JudgeSnippetVerdict_NoFirst(response) ==
    IF Contains(response, "JUDGEMENT: NO")
    THEN Return(Verdict(FALSE, Some(TryExcept(ReasonAttempt(response),
                                              "Results appeared irrelevant."))))
    ELSE Return(Verdict(TRUE, None))

\* run_judge_snippet, after the generation call
JudgeSnippetVerdict(response) ==
    IF Contains(response, "JUDGEMENT: YES")
    THEN Return(Verdict(TRUE, None))
    ELSE IF Contains(response, "JUDGEMENT: NO")
    THEN Return(Verdict(FALSE, Some(TryExcept(ReasonAttempt(response),
                                              "Results appeared irrelevant."))))
    ELSE Return(Verdict(TRUE, None))

\* run_judge_content without the try/except around the split
JudgeContentVerdict_NoExcept(response) ==
    IF Contains(response, "JUDGEMENT: YES")
    THEN Return(Verdict(TRUE, None))
    ELSE LET attempt == ReasonAttempt(response)
         IN  IF attempt.status = "raised" THEN attempt
             ELSE Return(Verdict(FALSE, Some(attempt.value)))

\* run_judge_content, after the generation call
JudgeContentVerdict(response) ==
    IF Contains(response, "JUDGEMENT: YES")
    THEN Return(Verdict(TRUE, None))
    ELSE Return(Verdict(FALSE, Some(TryExcept(ReasonAttempt(response),
                                              "Information was too vague or incomplete."))))

\* run_reflection_query without the label test and the try/except
ReflectionQueryResult_Unguarded(response) ==
    LET attempt == NewQueryAttempt(response)
    IN  IF attempt.status = "raised" THEN attempt ELSE Return(Some(attempt.value))

\* run_reflection_query, after the generation call
ReflectionQueryResult(response) ==
    IF Contains(response, "New_Query:")
    THEN LET attempt == NewQueryAttempt(response)
         IN  Return(IF attempt.status = "raised" THEN None ELSE Some(attempt.value))
    ELSE Return(None)

\* run_presence_check that looks for the word PRESENT alone
PresenceCheckResult_AnyPresent(response) == Return(Contains(response, "PRESENT"))

\* run_presence_check, after the generation call
PresenceCheckResult(response) == Return(Contains(response, "STATUS: PRESENT"))

\* run_refine_extraction, after the generation call
RefineExtractionResult(response) == Return(response)

\* run_reflection_content, after the generation call
ReflectionContentResult(response) == Return(Strip(response))

\* run_hallucination_check, after the generation call
HallucinationCheckResult(response) == Return(Contains(response, "JUDGEMENT: YES"))

(***************************************************************************)
(* The collaborators outside the module.                                   *)
(***************************************************************************)
\* tokenizer.apply_chat_template(messages, tokenize=False,
\* add_generation_prompt=True): the rendering is the tokenizer's; the model
\* keeps what it was rendered from
ApplyChatTemplate(msgs) ==
    [rendered_from |-> msgs, tokenize |-> FALSE, add_generation_prompt |-> TRUE]

\* SamplingParams(max_tokens=..., temperature=...)
SamplingParams(max_tokens, temperature) ==
    [max_tokens |-> max_tokens, temperature |-> temperature]

Components ==
    {"run_judge_snippet", "run_reflection_query", "run_presence_check",
     "run_refine_extraction", "run_judge_content", "run_reflection_content",
     "run_hallucination_check"}

Gates == {"run_judge_snippet", "run_judge_content"}

\* the reflector that follows a failed verdict of gate g
Reflector(g) ==
    IF g = "run_judge_snippet" THEN "run_reflection_query" ELSE "run_reflection_content"

(***************************************************************************)
(* The inputs the model draws from.                                        *)
(***************************************************************************)
Question == "What was Apple's revenue in 2024?"
Query == "apple revenue 2024"
ShortHistory == "Step 1: search the annual report."
\* longer than the history window: only its tail fits
LongHistory == "EARLY" \o Rep("h", HistoryChars - 4) \o "LATE"
Histories == <<None, Some(""), Some(ShortHistory), Some(LongHistory)>>

\* the i-th search result: the second has no snippet, the third has a
\* snippet longer than the cut
ResultAt(i) ==
    CASE i = 1 -> [title |-> "Apple", url |-> "https://example.org/1",
                   snippet |-> "Apple reports fiscal 2024 revenue."]
      [] i = 2 -> [title |-> "No snippet here"]
      [] i = 3 -> [snippet |-> Rep("s", SnippetChars) \o "TAIL"]
      [] OTHER -> [snippet |-> "result #" \o SubSeq("0123456789", i + 1, i + 1)]

ResultList(n) == [i \in 1..n |-> ResultAt(i)]

Info == "Apple revenue was 391 billion USD."
Document == "Apple revenue was 391 billion USD in fiscal 2024."

JudgeSnippetArgs ==
    {[question |-> Question, history |-> Histories[(n % 4) + 1], query |-> Query,
      results |-> ResultList(n)] : n \in 0..MaxResults}

JudgeContentArgs ==
    {[question |-> Question, history |-> h, search_query |-> Query,
      extracted_info |-> Info] : h \in {None, Some(ShortHistory)}}

PresenceArgs ==
    {[search_query |-> Query, document_text |-> d] : d \in {"", Document}}

HallucinationArgs ==
    {[question |-> Question, final_answer |-> f] : f \in {"", "\\boxed{391 billion}"}}

\* the pieces completions are made of, per function
Frags(c) ==
    CASE c \in Gates \cup {"run_hallucination_check"} ->
            {"JUDGEMENT: YES", "JUDGEMENT: NO",
             "JUDGEMENT: NO | Reason: missing date", " | Reason: too old ",
             "not sure"}
      [] c = "run_reflection_query" ->
            {"New_Query:", "New_Query: apple revenue \n",
             "Reasoning: add the year\n", "\nnext try"}
      [] c \in {"run_presence_check"} ->
            {"STATUS: PRESENT", "STATUS: ABSENT", "STATUS: ", "PRESENT"}
      [] c = "run_refine_extraction" ->
            {"**Final Information** revenue was 391 billion",
             "No helpful information found.", " "}
      [] OTHER ->
            {"Analysis: the year is missing",
             "\nSearch_Direction: check the annual report\n", " "}

\* the completion texts the backend may return to function c
Completions(c) ==
    {Join("", fs) : fs \in UNION {[1..n -> Frags(c)] : n \in 0..MaxFrags}}

(***************************************************************************)
(* State.                                                                  *)
(***************************************************************************)
VARIABLES
    comp,         \* the function being run, "none" between calls
    pc,           \* "idle", "called", "generating" (inside llm.generate), "returned"
    args,         \* its arguments
    messages,     \* the chat messages it built
    batch,        \* the list of prompts it passed to llm.generate
    sampling,     \* the sampling_params it passed
    genCalls,     \* llm.generate calls it has issued
    response,     \* output[0].outputs[0].text
    result,       \* what it returned
    verdicts,     \* verdicts the gate call has yielded
    caller,       \* where the orchestrating caller is
    loop,         \* the gate of the loop the caller runs, "none" outside one
    remaining,    \* the caller's remaining budget
    lastVerdict,  \* the last verdict the caller handled, with the budget it saw
    reflectCalls  \* reflector calls the caller made since that verdict

callerVars == <<caller, loop, remaining, lastVerdict, reflectCalls>>
vars == <<comp, pc, args, messages, batch, sampling, genCalls, response, result,
          verdicts, caller, loop, remaining, lastVerdict, reflectCalls>>

NoFrame ==
    /\ comp' = "none"
    /\ pc' = "idle"
    /\ args' = None
    /\ messages' = <<>>
    /\ batch' = <<>>
    /\ sampling' = None
    /\ genCalls' = 0
    /\ response' = ""
    /\ result' = NoResult
    /\ verdicts' = 0

Init ==
    /\ comp = "none"
    /\ pc = "idle"
    /\ args = None
    /\ messages = <<>>
    /\ batch = <<>>
    /\ sampling = None
    /\ genCalls = 0
    /\ response = ""
    /\ result = NoResult
    /\ verdicts = 0
    /\ caller = "top"
    /\ loop = "none"
    /\ remaining = 0
    /\ lastVerdict = None
    /\ reflectCalls = 0

(***************************************************************************)
(* The functions.  Each runs from its entry to the blocking llm.generate   *)
(* call in one step, and from the completion to its return in another.     *)
(***************************************************************************)
\* a call that issues the generation twice (a retry of the first attempt)
Generate_Twice(c, prompt_content, sampling_params) ==
    /\ comp = c
    /\ pc = "called"
    /\ messages' = <<[role |-> "user", content |-> prompt_content]>>
    /\ batch' = <<ApplyChatTemplate(messages')>>
    /\ sampling' = sampling_params
    /\ genCalls' = genCalls + 2
    /\ pc' = "generating"
    /\ UNCHANGED <<comp, args, response, result, verdicts, callerVars>>

\* messages = [{"role": "user", "content": prompt_content}]
\* text_input = tokenizer.apply_chat_template(...)
\* output = llm.generate([text_input], sampling_params=...)
Generate(c, prompt_content, sampling_params) ==
    /\ comp = c
    /\ pc = "called"
    /\ messages' = <<[role |-> "user", content |-> prompt_content]>>
    /\ batch' = <<ApplyChatTemplate(messages')>>
    /\ sampling' = sampling_params
    /\ genCalls' = genCalls + 1
    /\ pc' = "generating"
    /\ UNCHANGED <<comp, args, response, result, verdicts, callerVars>>

\* response = output[0].outputs[0].text, then the function's return
Complete(c, text, returned) ==
    /\ comp = c
    /\ pc = "generating"
    /\ response' = text
    /\ result' = returned
    /\ verdicts' = IF c \in Gates /\ returned.status = "returned"
                   THEN verdicts + 1 ELSE verdicts
    /\ pc' = "returned"
    /\ UNCHANGED <<comp, args, messages, batch, sampling, genCalls, callerVars>>

run_judge_snippet ==
    Generate("run_judge_snippet", JudgeSnippetPrompt(args), SamplingParams(500, "0.1"))

run_judge_snippet_return ==
    \E text \in Completions("run_judge_snippet") :
        Complete("run_judge_snippet", text, JudgeSnippetVerdict(text))

run_reflection_query ==
    Generate("run_reflection_query", ReflectionQueryPrompt(args), SamplingParams(100, "0.7"))

run_reflection_query_return ==
    \E text \in Completions("run_reflection_query") :
        Complete("run_reflection_query", text, ReflectionQueryResult(text))

run_presence_check ==
    Generate("run_presence_check", PresenceCheckPrompt(args), SamplingParams(10, "0.1"))

run_presence_check_return ==
    \E text \in Completions("run_presence_check") :
        Complete("run_presence_check", text, PresenceCheckResult(text))

run_refine_extraction ==
    Generate("run_refine_extraction", RefineExtractionPrompt(args), SamplingParams(1500, "0.5"))

run_refine_extraction_return ==
    \E text \in Completions("run_refine_extraction") :
        Complete("run_refine_extraction", text, RefineExtractionResult(text))

run_judge_content ==
    Generate("run_judge_content", JudgeContentPrompt(args), SamplingParams(100, "0.1"))

run_judge_content_return ==
    \E text \in Completions("run_judge_content") :
        Complete("run_judge_content", text, JudgeContentVerdict(text))

run_reflection_content ==
    Generate("run_reflection_content", ReflectionContentPrompt(args), SamplingParams(300, "0.7"))

run_reflection_content_return ==
    \E text \in Completions("run_reflection_content") :
        Complete("run_reflection_content", text, ReflectionContentResult(text))

run_hallucination_check ==
    Generate("run_hallucination_check", HallucinationCheckPrompt(args), SamplingParams(50, "0.1"))

run_hallucination_check_return ==
    \E text \in Completions("run_hallucination_check") :
        Complete("run_hallucination_check", text, HallucinationCheckResult(text))

(***************************************************************************)
(* The orchestrating caller: it runs a gate, answers a failed verdict with *)
(* the gate's reflector while its budget lasts, and runs the presence      *)
(* check, the re-extraction and the hallucination check on their own.      *)
(***************************************************************************)
GateArgs(g) == IF g = "run_judge_snippet" THEN JudgeSnippetArgs ELSE JudgeContentArgs

\* the reflector's arguments after gate g, called with a, failed with reason
ReflectorArgs(g, a, reason) ==
    IF g = "run_judge_snippet"
    THEN [question |-> a.question, history |-> a.history,
          failed_query |-> a.query, failure_reason |-> reason]
    ELSE [question |-> a.question, search_query |-> a.search_query,
          extracted_info |-> a.extracted_info, failure_reason |-> reason]

\* a call of function c with arguments a: a fresh frame
Call(c, a) ==
    /\ comp' = c
    /\ pc' = "called"
    /\ args' = a
    /\ messages' = <<>>
    /\ batch' = <<>>
    /\ sampling' = None
    /\ genCalls' = 0
    /\ response' = ""
    /\ result' = NoResult
    /\ verdicts' = 0

CallerStartLoop ==
    /\ caller = "top"
    /\ \E g \in Gates, b \in 0..MaxBudget :
          \E a \in GateArgs(g) :
              /\ Call(g, a)
              /\ loop' = g
              /\ remaining' = b
    /\ caller' = "await_verdict"
    /\ lastVerdict' = None
    /\ reflectCalls' = 0

\* a caller that reflects on every failed verdict, whatever its budget
CallerOnVerdict_IgnoresBudget ==
    /\ caller = "await_verdict"
    /\ pc = "returned"
    /\ result.status = "returned"
    /\ LET v == result.value
       IN  /\ lastVerdict' = Some([passed |-> v.passed, budget |-> remaining])
           /\ IF ~v.passed
              THEN /\ Call(Reflector(loop), ReflectorArgs(loop, args, v.reason))
                   /\ remaining' = (IF remaining > 0 THEN remaining - 1 ELSE 0)
                   /\ reflectCalls' = 1
                   /\ caller' = "await_reflection"
                   /\ UNCHANGED loop
              ELSE /\ NoFrame
                   /\ reflectCalls' = 0
                   /\ caller' = "top"
                   /\ loop' = "none"
                   /\ UNCHANGED remaining

CallerOnVerdict ==
    /\ caller = "await_verdict"
    /\ pc = "returned"
    /\ result.status = "returned"
    /\ LET v == result.value
       IN  /\ lastVerdict' = Some([passed |-> v.passed, budget |-> remaining])
           /\ IF ~v.passed /\ remaining > 0
              THEN /\ Call(Reflector(loop), ReflectorArgs(loop, args, v.reason))
                   /\ remaining' = remaining - 1
                   /\ reflectCalls' = 1
                   /\ caller' = "await_reflection"
                   /\ UNCHANGED loop
              ELSE /\ NoFrame
                   /\ reflectCalls' = 0
                   /\ caller' = "top"
                   /\ loop' = "none"
                   /\ UNCHANGED remaining

CallerOnReflection ==
    /\ caller = "await_reflection"
    /\ pc = "returned"
    /\ result.status = "returned"
    /\ \E a \in GateArgs(loop) : Call(loop, a)
    /\ caller' = "await_verdict"
    /\ UNCHANGED <<loop, remaining, lastVerdict, reflectCalls>>

CallerPresence ==
    /\ caller = "top"
    /\ \E a \in PresenceArgs : Call("run_presence_check", a)
    /\ caller' = "await_presence"
    /\ UNCHANGED <<loop, remaining, lastVerdict, reflectCalls>>

CallerOnPresence ==
    /\ caller = "await_presence"
    /\ pc = "returned"
    /\ result.status = "returned"
    /\ IF result.value
       THEN /\ Call("run_refine_extraction", args)
            /\ caller' = "await_refine"
       ELSE /\ NoFrame
            /\ caller' = "top"
    /\ UNCHANGED <<loop, remaining, lastVerdict, reflectCalls>>

CallerOnRefine ==
    /\ caller = "await_refine"
    /\ pc = "returned"
    /\ NoFrame
    /\ caller' = "top"
    /\ UNCHANGED <<loop, remaining, lastVerdict, reflectCalls>>

CallerHallucination ==
    /\ caller = "top"
    /\ \E a \in HallucinationArgs : Call("run_hallucination_check", a)
    /\ caller' = "await_hallucination"
    /\ UNCHANGED <<loop, remaining, lastVerdict, reflectCalls>>

CallerOnHallucination ==
    /\ caller = "await_hallucination"
    /\ pc = "returned"
    /\ NoFrame
    /\ caller' = "top"
    /\ UNCHANGED <<loop, remaining, lastVerdict, reflectCalls>>

Next ==
    \/ CallerStartLoop
    \/ CallerOnVerdict
    \/ CallerOnReflection
    \/ CallerPresence
    \/ CallerOnPresence
    \/ CallerOnRefine
    \/ CallerHallucination
    \/ CallerOnHallucination
    \/ run_judge_snippet
    \/ run_judge_snippet_return
    \/ run_reflection_query
    \/ run_reflection_query_return
    \/ run_presence_check
    \/ run_presence_check_return
    \/ run_refine_extraction
    \/ run_refine_extraction_return
    \/ run_judge_content
    \/ run_judge_content_return
    \/ run_reflection_content
    \/ run_reflection_content_return
    \/ run_hallucination_check
    \/ run_hallucination_check_return

Spec == Init /\ [][Next]_vars

(***************************************************************************)
(* Properties.                                                             *)
(***************************************************************************)
YesMarker == "JUDGEMENT: YES"
NoMarker == "JUDGEMENT: NO"
ReasonDelimiter == "| Reason:"
QueryLabel == "New_Query:"
PresentMarker == "STATUS: PRESENT"

\* function c has returned (or raised) and its caller has not yet resumed
Finished(c) == comp = c /\ pc = "returned"

\* the fixed reason of gate g for a completion it cannot split
FallbackReason(g) ==
    IF g = "run_judge_snippet" THEN "Results appeared irrelevant."
    ELSE "Information was too vague or incomplete."

\* the text after the first occurrence of mark in s (mark occurs in s)
AfterFirst(s, mark) == SubSeq(s, Find(s, mark) + Len(mark), Len(s))

\* the text of s before the first occurrence of mark, all of s when none
Before(s, mark) == IF Find(s, mark) = 0 THEN s ELSE SubSeq(s, 1, Find(s, mark) - 1)

\* C1: a gate that finishes on a completion with neither "JUDGEMENT: YES"
\* nor "JUDGEMENT: NO" returns (passed = true, reason = none); this holds of
\* both gates.
C1_FailOpenBothGates ==
    \A g \in Gates :
        (Finished(g) /\ ~Contains(response, YesMarker) /\ ~Contains(response, NoMarker))
            => result = Return(Verdict(TRUE, None))

\* C2: a gate's verdict has reason none exactly when passed is true; when
\* passed is false the reason is a text, and it is the gate's fixed fallback
\* text when the completion holds no reason delimiter to split on.
C2_ReasonIffFailed ==
    \A g \in Gates :
        Finished(g) =>
            /\ result.status = "returned"
            /\ result.value.passed \in BOOLEAN
            /\ (result.value.reason = None) <=> result.value.passed
            /\ ~result.value.passed =>
                  /\ Len(result.value.reason) = 1
                  /\ ~Contains(response, ReasonDelimiter) =>
                        result.value.reason = Some(FallbackReason(g))

\* a gate failed a completion it could not split and gave its fallback reason
C2_Witness ==
    /\ Finished("run_judge_snippet")
    /\ result = Return(Verdict(FALSE, Some("Results appeared irrelevant.")))

\* C3: a finished gate call has yielded exactly one verdict (none before it
\* finishes); the caller answers a failed verdict with exactly one call of
\* the gate's reflector when its remaining budget was positive, and with none
\* when the budget was exhausted or the verdict passed.
C3_VerdictReflectionPairing ==
    /\ \A g \in Gates :
          /\ Finished(g) => (result.status = "returned" /\ verdicts = 1)
          /\ (comp = g /\ pc # "returned") => verdicts = 0
    /\ lastVerdict # None =>
          reflectCalls = (IF ~lastVerdict[1].passed /\ lastVerdict[1].budget > 0
                          THEN 1 ELSE 0)
    /\ caller = "await_reflection" =>
          /\ comp = Reflector(loop)
          /\ lastVerdict # None
          /\ ~lastVerdict[1].passed
          /\ remaining = lastVerdict[1].budget - 1
    /\ comp \in {"run_reflection_query", "run_reflection_content"} =>
          caller = "await_reflection"

\* the snippet gate failed with one unit of budget left, the caller called
\* the query reflector once and it has returned; the budget is now spent
C3_Witness ==
    /\ caller = "await_reflection"
    /\ Finished("run_reflection_query")
    /\ lastVerdict = Some([passed |-> FALSE, budget |-> 1])
    /\ reflectCalls = 1
    /\ remaining = 0

\* C4: a function that has reached its generation call, or returned, has
\* issued exactly one llm.generate call, with a batch of exactly one prompt
\* rendered from a single role=user message; before the call it has issued
\* none, and it returns without issuing another, whatever the completion.
C4_OneGenerationCall ==
    /\ pc \in {"generating", "returned"} =>
          /\ comp \in Components
          /\ genCalls = 1
          /\ Len(batch) = 1
          /\ batch[1].rendered_from = messages
          /\ Len(messages) = 1
          /\ messages[1].role = "user"
    /\ pc \in {"idle", "called"} => (genCalls = 0 /\ batch = <<>>)

\* a gate returned a failed verdict and had issued one generation call
C4_Witness ==
    /\ Finished("run_judge_content")
    /\ result.status = "returned"
    /\ ~result.value.passed
    /\ genCalls = 1

\* C5: run_presence_check returns true exactly when "STATUS: PRESENT" occurs
\* in the completion; false for "STATUS: ABSENT" and for the empty text.
C5_PresenceFailClosed ==
    Finished("run_presence_check") =>
        /\ result.status = "returned"
        /\ result.value \in BOOLEAN
        /\ result.value <=> Contains(response, PresentMarker)
        /\ response \in {"", "STATUS: ABSENT"} => result.value = FALSE

\* the check answered false on a completion that names PRESENT without the
\* whole marker
C5_Witness ==
    /\ Finished("run_presence_check")
    /\ response = "PRESENT"
    /\ result = Return(FALSE)

\* C6: run_reflection_query returns none when "New_Query:" is absent, and
\* otherwise the whitespace-trimmed text between the first occurrence of the
\* label and the next newline after it.
C6_LabeledField ==
    Finished("run_reflection_query") =>
        result = Return(IF ~Contains(response, QueryLabel) THEN None
                        ELSE Some(Strip(Before(AfterFirst(response, QueryLabel), "\n"))))

\* C7: the prompt run_judge_snippet sends holds the snippets of the first 5
\* results at most, each cut to 150 characters, and the last 500 characters
\* of the history (all of it when shorter).
C7_SnippetPromptContents ==
    (comp = "run_judge_snippet" /\ pc = "generating") =>
        LET prompt == messages[1].content
            rs == args.results
        IN  /\ \A i \in 1..Len(rs) :
                  LET snippet == Get(rs[i], "snippet", "")
                  IN  /\ i <= SnippetCount =>
                            Contains(prompt, "- " \o Prefix(snippet, SnippetChars))
                      /\ (i > SnippetCount \/ Len(snippet) > SnippetChars) =>
                            ~Contains(prompt, snippet)
            /\ args.history # None =>
                  Contains(prompt, Suffix(args.history[1], HistoryChars))

\* C8: a gate that finishes on a completion holding "JUDGEMENT: YES" returns
\* (passed = true, reason = none), whatever else the completion holds.
C8_YesPrecedence ==
    \A g \in Gates :
        (Finished(g) /\ Contains(response, YesMarker))
            => result = Return(Verdict(TRUE, None))

\* a gate passed a completion that holds YES after a NO with a reason
C8_Witness ==
    /\ Finished("run_judge_content")
    /\ response = "JUDGEMENT: NO | Reason: missing date" \o "JUDGEMENT: YES"
    /\ result = Return(Verdict(TRUE, None))

\* C9 as stated: on a completion with "JUDGEMENT: NO" and without
\* "JUDGEMENT: YES", a gate returns passed = false with the trimmed text that
\* follows the delimiter "| Reason:" as reason, and with its fallback text
\* when the delimiter is absent.
C9_ReasonFollowsDelimiter ==
    \A g \in Gates :
        (Finished(g) /\ Contains(response, NoMarker) /\ ~Contains(response, YesMarker))
            => result = Return(Verdict(FALSE,
                    Some(IF Contains(response, ReasonDelimiter)
                         THEN Strip(AfterFirst(response, ReasonDelimiter))
                         ELSE FallbackReason(g))))

\* C9 amended: on such a completion the reason is the trimmed text between
\* the first "| Reason:" and the next occurrence of "| Reason:" (the end of
\* the text when there is no other), and the fallback text when the
\* delimiter is absent.
C9_ReasonUpToNextDelimiter ==
    \A g \in Gates :
        (Finished(g) /\ Contains(response, NoMarker) /\ ~Contains(response, YesMarker))
            => result = Return(Verdict(FALSE,
                    Some(IF Contains(response, ReasonDelimiter)
                         THEN Strip(Before(AfterFirst(response, ReasonDelimiter),
                                           ReasonDelimiter))
                         ELSE FallbackReason(g))))

\* a gate failed a completion that holds the delimiter twice
C9_Witness ==
    /\ Finished("run_judge_snippet")
    /\ response = "JUDGEMENT: NO | Reason: missing date" \o " | Reason: too old "
    /\ result = Return(Verdict(FALSE, Some("missing date")))

\* C10: whatever the completion, a function that finishes has returned a
\* value; none ends by raising.
C10_ParseMissNeverRaised ==
    pc = "returned" => (comp \in Components /\ result.status = "returned")

\* the reflector returned the empty text for a label with nothing after it
C10_Witness ==
    /\ Finished("run_reflection_query")
    /\ response = "New_Query:"
    /\ result = Return(Some(""))

====
